---- MODULE Spec2Model ----
(***************************************************************************)
(* A model of chatexchange/wrapper.py: the SEChatWrapper session, its      *)
(* message queue and its single "message_sender" worker thread.            *)
(*                                                                         *)
(* The caller's operations (login, logout, sendMessage) are atomic steps   *)
(* of the caller; the worker is a separate thread whose position is pc.    *)
(* Texts are strings, so that prepending and appending a space differ.     *)
(* Variables that the program does not have (call, ncalls, nextId,         *)
(* started, accepted, texts, resps, slept, launches, inflight) record the  *)
(* history that the properties speak about.                                *)
(*                                                                         *)
(* The second half is the inbound path: watchRoom registers a callback,    *)
(* the transport hands it an activity blob, _room_events builds the Events *)
(* and the caller's handler gets them.  Spec is the send path, SpecEvents  *)
(* the inbound path over all blobs, SpecAll both together.                 *)
(***************************************************************************)
EXTENDS Integers, Sequences, FiniteSets, TLC

\* ------------------------------------------------------------------ bounds
MaxSends == 3          \* sendMessage calls in one behaviour
MaxCalls == 3          \* login and logout calls in one behaviour
MaxAttempts == 3       \* attempts the transport may refuse before accepting
MaxWaitSeconds == 1    \* largest N of "again in N seconds"
MaxRecords == 3        \* raw records in one room's event list

\* ------------------------------------------------------- program constants
BACKOFF_MULTIPLIER == 2
BACKOFF_ADDER == 5

None == "None"

\* A queue item: the tuple (room_id, text) of sendMessage, or SystemExit.
\* id and li are not in the program: the sequence number of the sendMessage
\* call and the value of logged_in when it was made.
Message(r, t, n, l) ==
    [stop |-> FALSE, room_id |-> r, text |-> t, id |-> n, li |-> l]
SystemExit == [stop |-> TRUE, room_id |-> 0, text |-> "", id |-> 0, li |-> TRUE]
NoItem == [stop |-> FALSE, room_id |-> 0, text |-> "", id |-> 0, li |-> TRUE]

Sites == {"SE", "MSO", "XX"}
Rooms == {1}
Texts == {"a", " a"}

\* str(room_id)
RoomStr(r) == ToString(r)

\* ------------------------------------------------- the transport's answers
\* postSomething returns either a str (the body) or a dict (parsed JSON).
\* match/secs: does TOO_FAST_RE match the body, and with which number.
RateLimitText(w) == [type |-> "str", match |-> TRUE, secs |-> w, id |-> None]
OpaqueErrorText == [type |-> "str", match |-> FALSE, secs |-> 0, id |-> None]
DuplicateMarker == [type |-> "dict", match |-> FALSE, secs |-> 0, id |-> None]
AcceptedPayload == [type |-> "dict", match |-> FALSE, secs |-> 0, id |-> "id"]

Responses ==
    {RateLimitText(w) : w \in 0..MaxWaitSeconds}
        \cup {OpaqueErrorText, DuplicateMarker, AcceptedPayload}

\* ---------------------------------------------------------------- state
VARIABLES
    site,           \* self.site
    logged_in,      \* self.logged_in
    previous,       \* self._previous
    message_queue,  \* self.message_queue, oldest item first
    messages,       \* self.messages
    thread,         \* self.thread: "initial", "started" (start() was called)
    pc,             \* where the worker thread is
    room_id, text, sent, attempt, wait,   \* locals of _actuallySendMessage
    next,           \* the item the worker took last
    call,           \* the last login, logout or sendMessage and its end
    ncalls,         \* number of login and logout calls so far
    nextId,         \* sequence number of the next sendMessage
    started,        \* ids of the messages, in the order of their first post
    accepted,       \* ids of the messages, in the order of their acceptance
    texts,          \* texts posted for the current message, one per attempt
    resps,          \* the answers to them
    slept,          \* the seconds slept after each of these attempts
    delivered,      \* the text of the last post the transport accepted
    launches,       \* how many times the thread's run() was begun
    inflight,       \* posts that have not been answered yet
    watchers,       \* room ids for which on_activity is registered
    activity,       \* the activity blob the transport delivers
    handled,        \* the Events on_event got in the last delivery
    outcome         \* how the last on_activity call ended

worker == <<pc, room_id, text, sent, attempt, wait, next>>
history == <<started, accepted, texts, resps, slept, delivered, launches,
             inflight>>
inbound == <<watchers, activity, handled, outcome>>
vars == <<site, logged_in, previous, message_queue, messages, thread,
          pc, room_id, text, sent, attempt, wait, next,
          call, ncalls, nextId,
          started, accepted, texts, resps, slept, delivered, launches,
          inflight, watchers, activity, handled, outcome>>

\* ------------------------------------------------------------ Event.Types
\* The values of the IntEnum Event.Types.
KnownCodes == (1..22) \cup {29, 30}

message_posted == 1

\* A member of Event.Types, and a plain int.
TypesMember(code) == [enum |-> TRUE, value |-> code]
PlainInt(code) == [enum |-> FALSE, value |-> code]

\* Types.by_value(): the dict from the values to the members.
by_value == [code \in KnownCodes |-> TypesMember(code)]

ResolveTypeUncaught(code) ==
    IF code \in DOMAIN by_value
    THEN [error |-> None, type |-> by_value[code]]
    ELSE [error |-> "KeyError", type |-> PlainInt(code)]

\* try: self.type = self.Types.by_value()[self.type]
\* except KeyError: (logged; self.type stays the int)
ResolveType(code) ==
    IF code \in DOMAIN by_value
    THEN [error |-> None, type |-> by_value[code]]
    ELSE [error |-> None, type |-> PlainInt(code)]

\* ------------------------------------------------------------ raw records
\* A raw record is a dict: a function from the keys it has.
CommonFields == {"event_type", "id", "room_id", "room_name", "time_stamp"}
PostedFields == {"content", "user_name", "user_id", "message_id"}

RawCommon(code, n) ==
    [event_type |-> code, id |-> n, room_id |-> 101, room_name |-> "X",
     time_stamp |-> 123]

RawPosted ==
    [event_type |-> message_posted, id |-> 9, room_id |-> 101,
     room_name |-> "X", time_stamp |-> 123, content |-> "hi",
     user_name |-> "Bob", user_id |-> 5, message_id |-> 77]

\* {}
EmptyDict == [k \in {} |-> 0]

\* A known type, two unknown codes (23 lies in the gap of the enum), a
\* message_posted without its own fields, a record without room_name.
RawRecords ==
    {RawPosted, RawCommon(3, 10), RawCommon(9999, 11), RawCommon(23, 12),
     RawCommon(message_posted, 13),
     [event_type |-> 4, id |-> 14, room_id |-> 101, time_stamp |-> 123],
     EmptyDict}

RECURSIVE SeqsUpTo(_, _)
SeqsUpTo(S, n) ==
    IF n = 0 THEN {<<>>}
    ELSE LET shorter == SeqsUpTo(S, n - 1)
         IN  shorter \cup {Append(q, x) : q \in {r \in shorter : Len(r) = n - 1},
                                           x \in S}

\* What the activity blob holds for one room: nothing, a dict without the
\* key 'e', or a dict with an event list.
RoomActivities ==
    {[t |-> 1]} \cup {[e |-> q] : q \in SeqsUpTo(RawRecords, MaxRecords)}

WatchRooms == {"101"}

\* The blobs: with or without an entry for room 101, with or without one
\* for another room.
Blobs ==
    {EmptyDict, [r102 |-> [e |-> <<RawPosted>>]]}
        \cup {[r101 |-> a] : a \in RoomActivities}
        \cup {[r101 |-> a, r102 |-> [e |-> <<RawPosted>>]] : a \in RoomActivities}

ExampleActivity == [r101 |-> [e |-> <<RawPosted>>]]

\* ------------------------------------------------------------------ Event
\* Event.__init__: the Event, or the exception that leaves the constructor.
Event(data) ==
    IF DOMAIN data = {}
    THEN [error |-> "AssertionError"]
    ELSE IF ~(CommonFields \subseteq DOMAIN data)
    THEN [error |-> "KeyError"]
    ELSE IF ResolveType(data.event_type).error # None
    THEN [error |-> ResolveType(data.event_type).error]
    ELSE IF ResolveType(data.event_type).type.value # message_posted
    THEN [error |-> None,
          type |-> ResolveType(data.event_type).type,
          event_id |-> data.id, room_id |-> data.room_id,
          room_name |-> data.room_name, time_stamp |-> data.time_stamp,
          data |-> data]
    ELSE IF ~(PostedFields \subseteq DOMAIN data)
    THEN [error |-> "KeyError"]
    ELSE [error |-> None,
          type |-> ResolveType(data.event_type).type,
          event_id |-> data.id, room_id |-> data.room_id,
          room_name |-> data.room_name, time_stamp |-> data.time_stamp,
          data |-> data,
          content |-> data.content, user_name |-> data.user_name,
          user_id |-> data.user_id, message_id |-> data.message_id]

\* ------------------------------------------------------------ _room_events
\* `if data`: an empty dict is false.
Truthy(data) == DOMAIN data # {}

RecordsKeptAll(q) == q

\* for data in room_events_data if data
RecordsKept(q) == SelectSeq(q, Truthy)

\* activity.get('r' + room_id, {})
RoomActivity(blob, room) ==
    IF ("r" \o room) \in DOMAIN blob THEN blob["r" \o room] ELSE EmptyDict

\* room_activity.get('e', [])
RoomEventsData(blob, room) ==
    IF "e" \in DOMAIN RoomActivity(blob, room)
    THEN RoomActivity(blob, room).e
    ELSE <<>>

\* The list comprehension: the Events in the order of the records, or the
\* exception of the first constructor that raises.
room_events(blob, room) ==
    LET kept == RecordsKept(RoomEventsData(blob, room))
        built == [i \in 1..Len(kept) |-> Event(kept[i])]
        bad == {i \in 1..Len(kept) : built[i].error # None}
    IN  IF bad = {}
        THEN [error |-> None, events |-> built]
        ELSE [error |-> built[CHOOSE i \in bad : \A j \in bad : i <= j].error,
              events |-> <<>>]

\* -------------------------------------------------------------- __init__
NormalSite(s) == IF s = "MSO" THEN "MSE" ELSE s

InitWith(blob) ==
    /\ site \in {NormalSite(s) : s \in Sites}
    /\ logged_in = FALSE
    /\ previous = None
    /\ message_queue = <<>>
    /\ messages = 0
    /\ thread = "initial"
    /\ pc = "idle"
    /\ room_id = None /\ text = None /\ sent = FALSE
    /\ attempt = 0 /\ wait = 0 /\ next = NoItem
    /\ call = [op |-> None, ret |-> None]
    /\ ncalls = 0
    /\ nextId = 1
    /\ started = <<>> /\ accepted = <<>>
    /\ texts = <<>> /\ resps = <<>> /\ slept = <<>>
    /\ delivered = None
    /\ launches = 0
    /\ inflight = 0
    /\ watchers = {}
    /\ activity = blob
    /\ handled = <<>>
    /\ outcome = None

\* The session after construction, the transport about to deliver one blob.
Init == InitWith(ExampleActivity)

InitEvents == \E blob \in Blobs : InitWith(blob)

\* ------------------------------------------------------------ Queue.Queue
QueueFullOne(q) == Len(q) >= 1

\* Queue.Queue() has maxsize 0: put never finds the queue full.
QueueFull(q) == FALSE

QueuePut(q, item) == Append(q, item)

QueueGetIndexLifo(q) == Len(q)

\* get() takes the oldest item.
QueueGetIndex(q) == 1

QueueItem(q) == q[QueueGetIndex(q)]

QueueRest(q) ==
    [i \in 1..(Len(q) - 1) |->
        IF i < QueueGetIndex(q) THEN q[i] ELSE q[i + 1]]

\* --------------------------------------------------------- threading.Thread
CanStartAgain(t) == TRUE

\* Thread.start() raises RuntimeError unless the thread was never started.
CanStart(t) == t = "initial"

\* ------------------------------------------------------------------ login
login ==
    /\ UNCHANGED inbound
    /\ ncalls < MaxCalls
    /\ ncalls' = ncalls + 1
    /\ \E browser_ok \in BOOLEAN :
        IF logged_in
        THEN /\ call' = [op |-> "login", ret |-> "AssertionError"]
             /\ UNCHANGED <<logged_in, thread, pc, launches>>
        ELSE IF ~browser_ok
        THEN /\ call' = [op |-> "login", ret |-> "BrowserError"]
             /\ UNCHANGED <<logged_in, thread, pc, launches>>
        ELSE IF site \notin {"SE", "SO", "MSE"}
        THEN /\ call' = [op |-> "login", ret |-> "ValueError"]
             /\ UNCHANGED <<logged_in, thread, pc, launches>>
        ELSE /\ logged_in' = TRUE
             /\ IF CanStart(thread)
                THEN /\ thread' = "started"
                     /\ pc' = "assert"
                     /\ launches' = launches + 1
                     /\ call' = [op |-> "login", ret |-> None]
                ELSE /\ call' = [op |-> "login", ret |-> "RuntimeError"]
                     /\ UNCHANGED <<thread, pc, launches>>
    /\ UNCHANGED <<site, previous, message_queue, messages,
                   room_id, text, sent, attempt, wait, next, nextId,
                   started, accepted, texts, resps, slept, delivered,
                   inflight>>

\* ----------------------------------------------------------------- logout
logoutPutFirst ==
    /\ UNCHANGED inbound
    /\ ncalls < MaxCalls
    /\ ncalls' = ncalls + 1
    /\ message_queue' = QueuePut(message_queue, SystemExit)
    /\ IF ~logged_in
       THEN /\ call' = [op |-> "logout", ret |-> "AssertionError"]
            /\ UNCHANGED logged_in
       ELSE /\ logged_in' = FALSE
            /\ call' = [op |-> "logout", ret |-> None]
    /\ UNCHANGED <<site, previous, messages, thread, worker, nextId, history>>

logout ==
    /\ UNCHANGED inbound
    /\ ncalls < MaxCalls
    /\ ncalls' = ncalls + 1
    /\ IF ~logged_in
       THEN /\ call' = [op |-> "logout", ret |-> "AssertionError"]
            /\ UNCHANGED <<logged_in, message_queue>>
       ELSE /\ ~QueueFull(message_queue)
            /\ message_queue' = QueuePut(message_queue, SystemExit)
            /\ logged_in' = FALSE
            /\ call' = [op |-> "logout", ret |-> None]
    /\ UNCHANGED <<site, previous, messages, thread, worker, nextId, history>>

\* ------------------------------------------------------------ sendMessage
sendMessageCounts ==
    /\ UNCHANGED inbound
    /\ nextId <= MaxSends
    /\ ~QueueFull(message_queue)
    /\ \E r \in Rooms, t \in Texts :
        message_queue' = QueuePut(message_queue,
                                  Message(r, t, nextId, logged_in))
    /\ nextId' = nextId + 1
    /\ messages' = messages + 1
    /\ call' = [op |-> "sendMessage", ret |-> None]
    /\ UNCHANGED <<site, logged_in, previous, thread, worker,
                   ncalls, history>>

sendMessage ==
    /\ UNCHANGED inbound
    /\ nextId <= MaxSends
    /\ ~QueueFull(message_queue)
    /\ \E r \in Rooms, t \in Texts :
        message_queue' = QueuePut(message_queue,
                                  Message(r, t, nextId, logged_in))
    /\ nextId' = nextId + 1
    /\ call' = [op |-> "sendMessage", ret |-> None]
    /\ UNCHANGED <<site, logged_in, previous, messages, thread, worker,
                   ncalls, history>>

\* ---------------------------------------------------------------- _worker
\* assert self.logged_in, the first statement of the thread.
workerAssert ==
    /\ UNCHANGED inbound
    /\ pc = "assert"
    /\ pc' = IF logged_in THEN "get" ELSE "crashed"
    /\ UNCHANGED <<site, logged_in, previous, message_queue, messages, thread,
                   room_id, text, sent, attempt, wait, next,
                   call, ncalls, nextId, history>>

GuardTextNever(t, prev) == t

\* if text == self._previous: text = " " + text
GuardText(t, prev) == IF t = prev THEN " " \o t ELSE t

ServedNot(n) == n

\* self.messages += 1
Served(n) == n + 1

AfterStopLoop == "get"

\* if next == SystemExit: return
AfterStop == "exited"

\* next = self.message_queue.get(), up to the head of the while loop of
\* _actuallySendMessage.
workerGet ==
    /\ UNCHANGED inbound
    /\ pc = "get"
    /\ message_queue # <<>>
    /\ next' = QueueItem(message_queue)
    /\ message_queue' = QueueRest(message_queue)
    /\ IF QueueItem(message_queue) = SystemExit
       THEN /\ pc' = AfterStop
            /\ UNCHANGED <<messages, room_id, text, sent, attempt,
                           texts, resps, slept>>
       ELSE /\ messages' = Served(messages)
            /\ room_id' = RoomStr(QueueItem(message_queue).room_id)
            /\ text' = GuardText(QueueItem(message_queue).text, previous)
            /\ sent' = FALSE
            /\ attempt' = 0
            /\ texts' = <<>> /\ resps' = <<>> /\ slept' = <<>>
            /\ pc' = "post"
    /\ UNCHANGED <<site, logged_in, previous, thread, wait,
                   call, ncalls, nextId, started, accepted, delivered,
                   launches, inflight>>

\* wait = 0, the first statement of the loop body
LoopHeadWait == 0

\* The head of the loop and the request of self.br.postSomething.
workerPost ==
    /\ UNCHANGED inbound
    /\ pc = "post"
    /\ wait' = LoopHeadWait
    /\ attempt' = attempt + 1
    /\ texts' = Append(texts, text)
    /\ started' = IF attempt = 0 THEN Append(started, next.id) ELSE started
    /\ inflight' = inflight + 1
    /\ pc' = "response"
    /\ UNCHANGED <<site, logged_in, previous, message_queue, messages, thread,
                   room_id, text, sent, next, call, ncalls, nextId,
                   accepted, resps, slept, delivered, launches>>

ThrottledWaitNoAdder(w) == w * BACKOFF_MULTIPLIER

\* wait *= BACKOFF_MULTIPLIER; wait += BACKOFF_ADDER
ThrottledWait(w) == w * BACKOFF_MULTIPLIER + BACKOFF_ADDER

UnknownWaitUnset == LoopHeadWait

\* wait = self.BACKOFF_ADDER, for a str that does not match TOO_FAST_RE
UnknownWait == BACKOFF_ADDER

DuplicateWaitUnset == LoopHeadWait

\* wait = self.BACKOFF_ADDER, for a dict whose id is None
DuplicateWait == BACKOFF_ADDER

DuplicateTextPrepend(t) == " " \o t

\* text = text + " "
DuplicateText(t) == t \o " "

\* The wait the if/elif chain on the response leaves in `wait`.
ResponseWait(response) ==
    IF response.type = "str"
    THEN IF response.match THEN ThrottledWait(response.secs) ELSE UnknownWait
    ELSE IF response.type = "dict" /\ response.id = None
    THEN DuplicateWait
    ELSE LoopHeadWait

\* The text the if/elif chain on the response leaves in `text`.
ResponseText(response, t) ==
    IF response.type = "dict" /\ response.id = None
    THEN DuplicateText(t)
    ELSE t

SentIfWaiting(w) == TRUE

\* if wait: ... else: ... sent = True
SentAfter(w) == w = 0

RecordedTextQueued(posted, queued) == queued

\* self._previous = text
RecordedText(posted, queued) == posted

\* The answer of postSomething, and the code up to time.sleep.
workerResponse ==
    /\ UNCHANGED inbound
    /\ pc = "response"
    /\ \E response \in Responses :
        /\ attempt >= MaxAttempts => response = AcceptedPayload
        /\ resps' = Append(resps, response)
        /\ text' = ResponseText(response, text)
        /\ IF ~SentAfter(ResponseWait(response))
           THEN /\ wait' = ResponseWait(response)
                /\ UNCHANGED <<sent, previous, accepted, delivered>>
           ELSE /\ wait' = BACKOFF_ADDER
                /\ sent' = TRUE
                /\ previous' = RecordedText(ResponseText(response, text),
                                             next.text)
                /\ accepted' = Append(accepted, next.id)
                /\ delivered' = texts[Len(texts)]
    /\ inflight' = inflight - 1
    /\ pc' = "sleep"
    /\ UNCHANGED <<site, logged_in, message_queue, messages, thread,
                   room_id, attempt, next, call, ncalls, nextId,
                   started, texts, slept, launches>>

\* time.sleep(wait), then `while not sent`; after the loop, task_done().
workerSleep ==
    /\ UNCHANGED inbound
    /\ pc = "sleep"
    /\ slept' = Append(slept, wait)
    /\ pc' = IF sent THEN "get" ELSE "post"
    /\ UNCHANGED <<site, logged_in, previous, message_queue, messages, thread,
                   room_id, text, sent, attempt, wait, next,
                   call, ncalls, nextId,
                   started, accepted, texts, resps, delivered, launches,
                   inflight>>

\* ------------------------------------------------------------------ rooms
session == <<site, logged_in, previous, message_queue, messages, thread,
             ncalls, nextId>>

\* self.br.joinRoom(room_id): nothing of the wrapper changes.
joinRoom ==
    UNCHANGED <<session, worker, history, call, inbound>>

\* Registers on_activity for the room with watch_room_http.
watchRoom ==
    /\ \E room \in WatchRooms : watchers' = watchers \cup {room}
    /\ UNCHANGED <<session, worker, history, call, activity, handled,
                   outcome>>

\* Registers on_activity for the room with watch_room_socket.
watchRoomSocket ==
    /\ \E room \in WatchRooms : watchers' = watchers \cup {room}
    /\ UNCHANGED <<session, worker, history, call, activity, handled,
                   outcome>>

\* on_activity(activity): for event in self._room_events(...): on_event(...)
on_activity ==
    /\ \E room \in watchers :
        /\ outcome' = IF room_events(activity, room).error = None
                      THEN "returned"
                      ELSE room_events(activity, room).error
        /\ handled' = room_events(activity, room).events
    /\ UNCHANGED <<session, worker, history, call, watchers, activity>>

Next ==
    \/ login
    \/ logout
    \/ sendMessage
    \/ workerAssert
    \/ workerGet
    \/ workerPost
    \/ workerResponse
    \/ workerSleep

Spec == Init /\ [][Next]_vars

NextEvents ==
    \/ joinRoom
    \/ watchRoom
    \/ watchRoomSocket
    \/ on_activity

SpecEvents == InitEvents /\ [][NextEvents]_vars

NextAll ==
    \/ Next
    \/ NextEvents

SpecAll == Init /\ [][NextAll]_vars

\* ------------------------------------------------------------ properties
RECURSIVE Spaces(_)
Spaces(k) == IF k = 0 THEN "" ELSE " " \o Spaces(k - 1)

IsRateLimited(response) == response.type = "str" /\ response.match
IsUnknownFailure(response) == response.type = "str" /\ ~response.match
IsDuplicate(response) == response.type = "dict" /\ response.id = None
IsAccepted(response) == response.type = "dict" /\ response.id # None

InRetryLoop == pc \in {"post", "response", "sleep"}

\* C1: the messages reach the transport in the order of their sendMessage
\* calls: the first posts are those of messages 1, 2, 3, ... in this order,
\* so are the acceptances, and a message is first posted only when every
\* message before it has been accepted.
C1_FifoOrder ==
    /\ started = [i \in 1..Len(started) |-> i]
    /\ accepted = [i \in 1..Len(accepted) |-> i]
    /\ Len(accepted) <= Len(started)
    /\ Len(started) <= Len(accepted) + 1

C1_Witness ==
    /\ started = <<1, 2>>
    /\ accepted = <<1>>
    /\ message_queue # <<>>
    /\ message_queue[1].id = 3

\* C2: a sendMessage made while logged_in is false puts nothing into the
\* queue, and nothing of it is ever posted.
C2_NoSendUnlessLoggedIn ==
    /\ \A i \in 1..Len(message_queue) : message_queue[i].li
    /\ InRetryLoop => next.li

\* C3: after the answer RateLimited(w) the worker sleeps w*2+5 seconds, the
\* loop goes on, and the next post carries the same text.
C3_RateLimitedWait ==
    \A k \in 1..Len(resps) :
        IsRateLimited(resps[k]) =>
            /\ k <= Len(slept) => slept[k] = resps[k].secs * 2 + 5
            /\ k < Len(texts) => texts[k + 1] = texts[k]
            /\ k = Len(resps) => ~sent /\ InRetryLoop

C3_Witness ==
    /\ Len(texts) = 3
    /\ resps[1] = RateLimitText(0) /\ slept[1] = 5
    /\ resps[2] = RateLimitText(1) /\ slept[2] = 7

\* C4: after the answer Duplicate to a post of T the worker sleeps 5 seconds
\* and posts T followed by one space; after k Duplicate answers in a row the
\* post carries the first text followed by k spaces.
C4_DuplicateRetry ==
    \A k \in 1..Len(resps) :
        /\ IsDuplicate(resps[k]) =>
            /\ k <= Len(slept) => slept[k] = 5
            /\ k < Len(texts) => texts[k + 1] = texts[k] \o " "
            /\ k = Len(resps) => ~sent /\ InRetryLoop
        /\ (k < Len(texts) /\ \A j \in 1..k : IsDuplicate(resps[j])) =>
            texts[k + 1] = texts[1] \o Spaces(k)

C4_Witness ==
    /\ Len(texts) = 3
    /\ IsDuplicate(resps[1]) /\ IsDuplicate(resps[2])
    /\ texts[1] = "a" /\ texts[3] = "a  "

\* C5: the first post of a message carries one space and the queued text
\* when the queued text is the text of the last accepted post, and the
\* queued text itself otherwise; a later post of the message carries the
\* text of the post before it, with at most a space added at its end.
C5_LeadingSpace ==
    [][(pc = "post" /\ pc' = "response") =>
        IF attempt = 0
        THEN texts'[1] = (IF next.text = delivered
                          THEN " " \o next.text
                          ELSE next.text)
        ELSE texts'[Len(texts')] \in
                {texts[Len(texts)], texts[Len(texts)] \o " "}]_vars

C5_Witness ==
    /\ Len(accepted) = 1
    /\ delivered = "a"
    /\ next.id = 2 /\ next.text = "a"
    /\ texts = <<" a", " a">>

\* C6: after the answer UnknownFailure the worker sleeps 5 seconds, the loop
\* goes on with the same text and the worker does not stop, however many
\* such answers came before.
C6_UnknownFailureRetry ==
    \A k \in 1..Len(resps) :
        IsUnknownFailure(resps[k]) =>
            /\ k <= Len(slept) => slept[k] = 5
            /\ k < Len(texts) => texts[k + 1] = texts[k]
            /\ k = Len(resps) => ~sent /\ InRetryLoop

C6_Witness ==
    /\ Len(texts) = 3
    /\ IsUnknownFailure(resps[1]) /\ IsUnknownFailure(resps[2])
    /\ slept = <<5, 5>>

\* C7: a login made while logged_in is true and a logout made while
\* logged_in is false end with an error and change neither logged_in nor
\* the queue nor the worker.
C7_FailedCallChangesNothing ==
    [][(/\ ncalls' = ncalls + 1
        /\ \/ call'.op = "login" /\ logged_in
           \/ call'.op = "logout" /\ ~logged_in) =>
            /\ call'.ret = "AssertionError"
            /\ UNCHANGED <<logged_in, message_queue, thread, launches>>
            /\ UNCHANGED worker]_vars

C7_Witness ==
    /\ call = [op |-> "logout", ret |-> "AssertionError"]
    /\ thread = "started"
    /\ ncalls = 3

\* C8: the worker that has taken the stop sentinel has terminated, and from
\* then on nothing is taken from the queue and nothing is posted; the
\* sentinel is taken only when the message before it has been accepted.
C8_StopIsFinal ==
    [][/\ next.stop =>
            /\ pc = "exited"
            /\ UNCHANGED <<pc, next, messages, started, accepted, texts,
                           resps, inflight>>
            /\ Len(message_queue') >= Len(message_queue)
       /\ (~next.stop /\ next'.stop) =>
            /\ pc = "get"
            /\ Len(started) = Len(accepted)
            /\ resps # <<>> => IsAccepted(resps[Len(resps)])]_vars

C8_Witness ==
    /\ pc = "exited"
    /\ next.stop
    /\ Len(resps) >= 2
    /\ message_queue # <<>>
    /\ ~message_queue[1].stop

\* C9: the thread's run() is begun at most once, and at most one post is
\* unanswered.
C9_OneWorkerOnePost ==
    /\ launches <= 1
    /\ inflight <= 1
    /\ inflight = 1 => pc = "response"

C9_Witness ==
    /\ inflight = 1
    /\ launches = 1
    /\ call = [op |-> "login", ret |-> "RuntimeError"]

\* C10: sendMessage can be called wherever the worker is and however long
\* the queue is, and it returns None: no outcome of a post reaches its
\* caller.
C10_SendNeverBlocks ==
    /\ nextId <= MaxSends => ENABLED sendMessage
    /\ call.op = "sendMessage" => call.ret = None

C10_Witness ==
    /\ call.op = "sendMessage"
    /\ pc = "sleep" /\ ~sent
    /\ Len(message_queue) >= 2
    /\ message_queue[Len(message_queue)].id = nextId - 1

LastResp(rs) == rs[Len(rs)]

\* C13: the retry loop ends only on Accepted: an answer marks the message
\* sent, records the text and counts as an acceptance exactly when it is a
\* dict whose id is not None; after any other answer the worker posts again,
\* after this one it goes back to the queue.
C13_EndsOnlyOnAccepted ==
    [][/\ (pc = "response" /\ pc' = "sleep") =>
            IF IsAccepted(LastResp(resps'))
            THEN sent' /\ Len(accepted') = Len(accepted) + 1
            ELSE ~sent' /\ UNCHANGED <<previous, accepted>>
       /\ (pc = "sleep" /\ pc' # "sleep") =>
            pc' = (IF IsAccepted(LastResp(resps)) THEN "get" ELSE "post")]_vars

C13_Witness ==
    /\ pc = "get"
    /\ sent
    /\ Len(resps) = 3
    /\ IsRateLimited(resps[1])
    /\ IsUnknownFailure(resps[2])
    /\ IsAccepted(resps[3])

\* C14: a dict whose id is None is a Duplicate, not an acceptance: the
\* message is not marked sent, _previous keeps its value, and after the
\* sleep the worker posts again.
C14_NullIdIsDuplicate ==
    [][/\ (pc = "response" /\ pc' = "sleep"
                /\ LastResp(resps') = DuplicateMarker) =>
            /\ ~sent'
            /\ UNCHANGED <<previous, accepted, delivered>>
       /\ (pc = "sleep" /\ pc' # "sleep"
                /\ LastResp(resps) = DuplicateMarker) =>
            pc' = "post"]_vars

C14_Witness ==
    /\ pc = "post"
    /\ Len(accepted) = 1
    /\ previous = "a"
    /\ next.id = 2
    /\ resps = <<DuplicateMarker>>
    /\ texts = <<" a">>
    /\ text = " a "

\* C15: every login that sets logged_in to true starts the worker.
C15_LoginStartsWorker ==
    [][(~logged_in /\ logged_in') =>
            (launches' = launches + 1 /\ pc' = "assert")]_vars

\* C17: the worker's assertion that logged_in is true never fails.
C17_AssertHolds == pc # "crashed"

\* C18: when the worker has terminated after the one login and logout of a
\* session, no message that was queued while logged_in was true is left in
\* the queue.
C18_NoMessageLost ==
    (pc \in {"exited", "crashed"} /\ ncalls <= 2) =>
        \A i \in 1..Len(message_queue) :
            message_queue[i].stop \/ ~message_queue[i].li

\* C19: _previous is the text of the accepted post, leading and trailing
\* spaces included, not the queued text; so a message whose queued text T
\* follows an accepted post of a space and T is posted as T.
C19_PreviousIsPostedText ==
    /\ accepted # <<>> => previous = delivered
    /\ (sent /\ texts # <<>>) => previous = texts[Len(texts)]
    /\ (InRetryLoop /\ ~sent /\ texts # <<>>
            /\ delivered = " " \o next.text) => texts[1] = next.text

C19_Witness ==
    /\ messages = 3
    /\ next.text = "a"
    /\ delivered = " a"
    /\ texts = <<"a">>
    /\ resps = <<>>
    /\ Len(accepted) = 2

MessagesIn(q) == Cardinality({i \in 1..Len(q) : ~q[i].stop})

\* C20: self.messages is the number of messages taken from the queue: one
\* more than the acceptances while a message is not yet accepted, equal to
\* them otherwise; it never decreases, and taking the sentinel leaves it.
C20_CountsDequeued ==
    [][/\ messages' = (nextId' - 1) - MessagesIn(message_queue')
       /\ messages' = Len(accepted')
                        + (IF InRetryLoop' /\ ~sent' THEN 1 ELSE 0)
       /\ messages' >= messages
       /\ (~next.stop /\ next'.stop) => messages' = messages]_vars

C20_Witness ==
    /\ pc = "exited"
    /\ messages = 2
    /\ Len(accepted) = 2
    /\ nextId = 4

\* The event list of room 101 in the delivered blob, and its non-empty
\* records.
RawList ==
    IF "r101" \in DOMAIN activity /\ "e" \in DOMAIN activity.r101
    THEN activity.r101.e
    ELSE <<>>

NonEmpty == SelectSeq(RawList, LAMBDA d : DOMAIN d # {})

HasItsFields(d) ==
    /\ CommonFields \subseteq DOMAIN d
    /\ d.event_type = 1 => PostedFields \subseteq DOMAIN d

IsUnknownType(d) ==
    /\ CommonFields \subseteq DOMAIN d
    /\ d.event_type \notin (1..22) \cup {29, 30}

\* C11: a record with an unknown event_type does not stop classification:
\* if the delivery raises, another record lacks one of its keys; otherwise
\* every non-empty record, before and after it, reaches the handler, and its
\* own Event has the raw integer as type.
C11_UnknownTypeKept ==
    outcome # None =>
        \A i \in 1..Len(NonEmpty) :
            IsUnknownType(NonEmpty[i]) =>
                /\ outcome \in {"returned", "KeyError"}
                /\ outcome = "KeyError" =>
                    \E j \in 1..Len(NonEmpty) :
                        j # i /\ ~HasItsFields(NonEmpty[j])
                /\ outcome = "returned" =>
                    /\ Len(handled) = Len(NonEmpty)
                    /\ \A j \in 1..Len(NonEmpty) :
                        handled[j].event_id = NonEmpty[j].id
                    /\ handled[i].type =
                        [enum |-> FALSE, value |-> NonEmpty[i].event_type]

C11_Witness ==
    /\ outcome = "returned"
    /\ RawList = <<RawCommon(3, 10), RawCommon(9999, 11), RawPosted>>
    /\ Len(handled) = 3
    /\ handled[2].type.value = 9999
    /\ handled[3].content = "hi"

\* C12, as claimed: for every blob a delivery hands the handler one Event
\* per non-empty record of the room's list, in the order of the records.
C12_OneEventPerRecord ==
    outcome # None =>
        /\ Len(handled) = Len(NonEmpty)
        /\ \A i \in 1..Len(NonEmpty) : handled[i].data = NonEmpty[i]

\* C12, amended: when every non-empty record of the room's list has its
\* keys, a delivery hands the handler one Event per non-empty record, in the
\* order of the records, and none for a blob without the room or without an
\* event list; when a record lacks a key, the delivery raises KeyError and
\* the handler gets nothing.
C12_OneEventPerCompleteRecord ==
    outcome # None =>
        IF \A i \in 1..Len(NonEmpty) : HasItsFields(NonEmpty[i])
        THEN /\ outcome = "returned"
             /\ Len(handled) = Len(NonEmpty)
             /\ \A i \in 1..Len(NonEmpty) :
                    /\ handled[i].data = NonEmpty[i]
                    /\ handled[i].event_id = NonEmpty[i].id
        ELSE /\ outcome = "KeyError"
             /\ handled = <<>>

C12_Witness ==
    /\ outcome = "returned"
    /\ RawList = <<EmptyDict, RawCommon(3, 10), RawPosted>>
    /\ Len(handled) = 2
    /\ handled[1].event_id = 10
    /\ handled[2].event_id = 9

\* C16: a sendMessage (nextId moves), a watchRoom or a delivery (the inbound
\* state moves) leaves logged_in, _previous and messages alone; a login or
\* logout (ncalls moves) leaves _previous and messages alone; logged_in
\* changes only in a login or logout, _previous and messages only in a step
\* of the worker (get or the handling of an answer), which is no call.
C16_SingleWriter ==
    [][/\ (nextId' # nextId \/ inbound' # inbound) =>
            UNCHANGED <<logged_in, previous, messages>>
       /\ ncalls' # ncalls =>
            UNCHANGED <<previous, messages, site, nextId, inbound>>
       /\ logged_in' # logged_in =>
            (ncalls' # ncalls /\ call'.op \in {"login", "logout"})
       /\ (previous' # previous \/ messages' # messages) =>
            /\ pc \in {"get", "response"} /\ pc' # pc
            /\ UNCHANGED <<ncalls, nextId, call, inbound>>]_vars

C16_Witness ==
    /\ outcome = "returned"
    /\ Len(handled) = 1
    /\ messages = 2
    /\ previous = " a"
    /\ ~logged_in
    /\ nextId = 4
====
